---- MODULE Spec2Model ----
(***************************************************************************)
(* Vector-space retrieval notebook (jan28-lsi/jan28-vector-spaces.ipynb):  *)
(* build_lexicon, build_inverted_index, build_termdoc_matrix, distance,    *)
(* build_vector, get_postings and search, run as the notebook runs them.   *)
(*                                                                         *)
(* A text (document or query) is a sequence of character codes; a term is  *)
(* a non-empty sequence of non-whitespace codes.  Document identifiers are *)
(* 0-based list positions, as in the notebook.                             *)
(***************************************************************************)
EXTENDS Integers, Sequences, FiniteSets

(* ------------------------------ bounds --------------------------------- *)
MaxDocLen == 3
MaxDocs == 2
MaxQueryLen == 3
MaxQueries == 2
\* runs of more than one call are explored on collections of at most this size
MaxSeqDocs == 1
MaxVecLen == 2

\* characters of the bounded texts: space, 'B', 'b'
Alphabet == {32, 66, 98}
\* what str.split() with no argument treats as a separator
Whitespace == {9, 10, 11, 12, 13, 32}
\* components of the vectors handed to distance on its own
VecVals == {-1, 0, 1, 2}

TextsUpTo(n) == UNION {[1..k -> Alphabet] : k \in 0..n}

\* the seven documents of the notebook
ReferenceCorpus ==
  << <<84,104,101,32,100,111,103,32,97,110,100,32,99,97,116,32,114,97,110,32,
       118,101,114,121,32,118,101,114,121,32,102,97,115,116>>,
     <<84,104,101,32,99,97,116,32,115,97,116,32,118,101,114,121,32,115,116,105,
       108,108>>,
     <<84,104,101,32,103,97,122,101,108,108,101,32,114,97,110,32,102,97,115,116>>,
     <<118,101,114,121,32,99,97,116>>,
     <<84,104,101,32,108,105,111,110,32,119,97,115,32,115,116,105,108,108>>,
     <<118,101,114,121>>,
     <<84,104,101,32,100,111,103,32,97,116,101,32,116,104,101,32,103,97,122,101,
       108,108,101>> >>

\* nine documents, no two equal; documents 1 and 8 hold the same single term
NineDocs ==
  << <<98>>, <<66>>, <<98,98>>, <<98,32,98>>, <<98,98,98>>, <<32,98>>, <<98,32>>,
     <<98,98,32>>, <<32,66>> >>

\* the queries 'cat very' and 'elephant'
CatVery == <<99,97,116,32,118,101,114,121>>
Elephant == <<101,108,101,112,104,97,110,116>>

Collections ==
  UNION {[1..n -> TextsUpTo(MaxDocLen)] : n \in 0..MaxDocs} \cup {ReferenceCorpus, NineDocs}

Queries == TextsUpTo(MaxQueryLen) \cup {CatVery, Elephant}

(* --------------------------- Python helpers ---------------------------- *)
\* x in a list
InList(x, seq) == \E i \in 1..Len(seq) : seq[i] = x

\* list.index(x): 0-based position of the first occurrence
ListIndex(seq, x) ==
  CHOOSE i \in 0..(Len(seq) - 1) :
    seq[i + 1] = x /\ \A j \in 0..(i - 1) : seq[j + 1] # x

\* sub in text, for two strings: substring test on the raw text
InStr(sub, text) ==
  \E i \in 0..(Len(text) - Len(sub)) : SubSeq(text, i + 1, i + Len(sub)) = sub

\* str.split(): the maximal runs of non-whitespace characters, in order
split(s) ==
  LET starts == {i \in 1..Len(s) :
                   s[i] \notin Whitespace /\ (i = 1 \/ s[i - 1] \in Whitespace)}
      EndOf(i) == CHOOSE j \in i..Len(s) :
                    /\ \A k \in i..j : s[k] \notin Whitespace
                    /\ j = Len(s) \/ s[j + 1] \in Whitespace
      Nth(k) == CHOOSE i \in starts : Cardinality({j \in starts : j < i}) = k - 1
  IN [k \in 1..Cardinality(starts) |-> SubSeq(s, Nth(k), EndOf(Nth(k)))]

\* s < t on strings: code-point-wise lexicographic order
StrLess(s, t) ==
  \/ Len(s) < Len(t) /\ SubSeq(t, 1, Len(s)) = s
  \/ \E i \in 1..Len(s) :
       /\ i <= Len(t)
       /\ s[i] < t[i]
       /\ \A j \in 1..(i - 1) : s[j] = t[j]

\* numpy sort of a list of strings: the same strings in ascending order
sort(seq) ==
  LET Below(x) == Cardinality({i \in 1..Len(seq) : StrLess(seq[i], x)})
      UpTo(x) == Cardinality({i \in 1..Len(seq) : ~StrLess(x, seq[i])})
  IN [k \in 1..Len(seq) |->
        LET i == CHOOSE i \in 1..Len(seq) : Below(seq[i]) < k /\ k <= UpTo(seq[i])
        IN seq[i]]

(* ---------------------------- build_lexicon ---------------------------- *)
\* a build_lexicon that appends every token, seen or not
SeenNever(t, lex) == FALSE

\* t in lexicon
Seen(t, lex) == InList(t, lex)

RECURSIVE AppendNew(_, _)
\* the inner loop: append every token not yet in the list
AppendNew(lex, toks) ==
  IF toks = <<>> THEN lex
  ELSE AppendNew(IF Seen(Head(toks), lex) THEN lex ELSE Append(lex, Head(toks)),
                 Tail(toks))

RECURSIVE LexLoop(_, _)
LexLoop(lex, docs) ==
  IF docs = <<>> THEN lex ELSE LexLoop(AppendNew(lex, split(Head(docs))), Tail(docs))

build_lexicon(docs) == sort(LexLoop(<<>>, docs))

(* ------------------------- build_inverted_index ------------------------ *)
\* does document d count as containing term, for the inverted index
IndexHas(term, d) == InList(term, split(d))

\* an index that records 1-based positions
DocIdOneBased(docs, p) == p

\* the identifier recorded for the document at 1-based position p
DocId(docs, p) == ListIndex(docs, docs[p])

RECURSIVE PostingsFrom(_, _, _)
\* the inner loop over the documents, from position p on
PostingsFrom(term, docs, p) ==
  IF p > Len(docs) THEN <<>>
  ELSE (IF IndexHas(term, docs[p]) THEN <<DocId(docs, p)>> ELSE <<>>)
       \o PostingsFrom(term, docs, p + 1)

build_inverted_index(docs) ==
  LET lex == build_lexicon(docs)
  IN [term \in {lex[k] : k \in 1..Len(lex)} |-> PostingsFrom(term, docs, 1)]

(* ------------------------- build_termdoc_matrix ------------------------ *)
\* does document d count as containing term, for the matrix
MatrixHas(term, d) == InStr(term, d)

\* a matrix that writes the column of the last occurrence of the document
ColIdLast(docs, p) ==
  CHOOSE i \in 0..(Len(docs) - 1) :
    docs[i + 1] = docs[p] /\ \A j \in (i + 1)..(Len(docs) - 1) : docs[j + 1] # docs[p]

\* column written for the document at 1-based position p
ColId(docs, p) == ListIndex(docs, docs[p])

\* nrows x ncols array, 0-based, rows in lexicon order; called without a lexicon
build_termdoc_matrix(docs) ==
  LET lex == build_lexicon(docs)
      nrows == Len(lex)
      ncols == Len(docs)
      written == {<<ListIndex(lex, lex[k]), ColId(docs, p)>> :
                    <<k, p>> \in {kp \in (1..nrows) \X (1..ncols) :
                                    MatrixHas(lex[kp[1]], docs[kp[2]])}}
  IN [i \in 0..(nrows - 1) |->
        [j \in 0..(ncols - 1) |-> IF <<i, j>> \in written THEN 1 ELSE 0]]

(* ------------------------------- distance ------------------------------ *)
RECURSIVE SumTo(_, _)
\* f[0] + ... + f[n-1]
SumTo(f, n) == IF n = 0 THEN 0 ELSE f[n - 1] + SumTo(f, n - 1)

VecLen(v) == Cardinality(DOMAIN v)

\* np.dot of two vectors of the same length
Dot(a, b) == SumTo([i \in DOMAIN a |-> a[i] * b[i]], VecLen(a))

\* np.linalg.norm, squared
NormSq(a) == Dot(a, a)

IsZeroVec(v) == \A i \in DOMAIN v : v[i] = 0

\* a division that answers 0 for a zero divisor
Float64DivZeroAsZero(num, densq) ==
  IF densq = 0
  THEN [kind |-> "num", num |-> 0, densq |-> 1]
  ELSE [kind |-> "num", num |-> num, densq |-> densq]

\* float64 division num / sqrt(densq): a zero divisor gives nan or +-inf (with a
\* RuntimeWarning), never an exception
Float64Div(num, densq) ==
  IF densq = 0
  THEN IF num = 0 THEN [kind |-> "nan"]
       ELSE IF num > 0 THEN [kind |-> "inf"] ELSE [kind |-> "-inf"]
  ELSE [kind |-> "num", num |-> num, densq |-> densq]

\* the cosine, kept exact as num / sqrt(densq)
distance(doc1, doc2) == Float64Div(Dot(doc1, doc2), NormSq(doc1) * NormSq(doc2))

SgnSq(x) == IF x < 0 THEN 0 - x * x ELSE x * x

\* a < b on two finite scores
ScoreLess(a, b) == SgnSq(a.num) * b.densq < SgnSq(b.num) * a.densq

ScoreEq(a, b) == SgnSq(a.num) * b.densq = SgnSq(b.num) * a.densq

(* ----------------------------- build_vector ---------------------------- *)
build_vector(q, lex) ==
  LET parts == split(q)
  IN [i \in 0..(Len(lex) - 1) |-> IF InList(lex[i + 1], parts) THEN 1 ELSE 0]

(* ----------------------------- get_postings ---------------------------- *)
\* index[part] on a defaultdict(list): the postings, or [] for a missing key
IndexGet(idx, part) == IF part \in DOMAIN idx THEN idx[part] ELSE <<>>

\* the defaultdict after the parts have been looked up: a missing key is inserted
IndexAfter(idx, parts) ==
  [k \in DOMAIN idx \cup {parts[i] : i \in 1..Len(parts)} |-> IndexGet(idx, k)]

SeqToSet(seq) == {seq[i] : i \in 1..Len(seq)}

\* a get_postings that unites the postings
SetUnion(sets) ==
  IF sets = <<>>
  THEN [status |-> "TypeError", hits |-> {}]
  ELSE [status |-> "ok", hits |-> UNION {sets[i] : i \in 1..Len(sets)}]

\* set.intersection(*sets): a TypeError with no argument at all
SetIntersection(sets) ==
  IF sets = <<>>
  THEN [status |-> "TypeError", hits |-> {}]
  ELSE [status |-> "ok",
        hits |-> {x \in sets[1] : \A i \in 1..Len(sets) : x \in sets[i]}]

\* a get_postings without the early return
NoPartsNever(parts) == FALSE

\* is the query one the early return answers
NoParts(parts) == parts = <<>>

\* the optional index argument: None, or a dictionary
NoIndex == [given |-> FALSE]
Given(idx) == [given |-> TRUE, map |-> idx]

\* returns the outcome, the set of matching identifiers and the caller's dictionary
\* as the call leaves it (opt is the index argument)
get_postings(q, docs, opt) ==
  LET parts == split(q)
      used == IF opt.given THEN opt.map ELSE build_inverted_index(docs)
      individual == [i \in 1..Len(parts) |-> SeqToSet(IndexGet(used, parts[i]))]
      r == SetIntersection(individual)
  IN IF NoParts(parts)
     THEN [status |-> "ok", hits |-> {}, index |-> IF opt.given THEN opt.map ELSE <<>>]
     ELSE [status |-> r.status, hits |-> r.hits,
           index |-> IF opt.given THEN IndexAfter(opt.map, parts) ELSE <<>>]

\* search calls get_hits, which the notebook no longer defines
get_hits(q, docs, idx) == get_postings(q, docs, idx)

(* -------------------------------- search ------------------------------- *)
Column(tdmat, c) == [i \in DOMAIN tdmat |-> tdmat[i][c]]

Orderings(S) ==
  {f \in [1..Cardinality(S) -> S] : \A i, j \in 1..Cardinality(S) : f[i] = f[j] => i = j}

\* list(s) and "for c in s" on a set of document identifiers: the language leaves
\* the order open.  CPython walks its hash table: up to four small integers sit in
\* a table of 8 slots at slot (value mod 8), so they come out by ascending slot
\* when the slots differ; the order is left open otherwise
ListingsOf(S) ==
  IF Cardinality(S) <= 4 /\ \A x, y \in S : x % 8 = y % 8 => x = y
  THEN {f \in Orderings(S) :
          \A i, j \in 1..Cardinality(S) : i < j => f[i] % 8 < f[j] % 8}
  ELSE Orderings(S)

\* a sort without reverse=True
GoesBeforeAscending(kx, ky) == ScoreLess(kx, ky)

\* does x go before y in sorted(..., reverse=True), y already placed
GoesBefore(kx, ky) == ScoreLess(ky, kx)

RECURSIVE InsertDesc(_, _, _)
InsertDesc(x, placed, key) ==
  IF placed = <<>> THEN <<x>>
  ELSE IF GoesBefore(key[x], key[Head(placed)]) THEN <<x>> \o placed
       ELSE <<Head(placed)>> \o InsertDesc(x, Tail(placed), key)

RECURSIVE SortDescFrom(_, _, _)
SortDescFrom(list, n, key) ==
  IF n = 0 THEN <<>> ELSE InsertDesc(list[n], SortDescFrom(list, n - 1, key), key)

\* sorted(list, key=..., reverse=True): stable, equal keys keep the list's order
sorted_reverse(list, key) == SortDescFrom(list, Len(list), key)

\* the candidates' scores against the query vector
ScoresOf(vec, cands, tdmat) == [c \in cands |-> distance(vec, Column(tdmat, c))]

(* ------------------------------- state --------------------------------- *)
\* documents, lexicon, index, td_matrix: the notebook's globals
\* pc: the next cell to run; op, query: the last call made and its query
\* status: how that call ended; hits: what get_postings returned
\* listed: list(candidates) as search iterated it; scores: the candidates' keys
\* results: what search returned; nq: calls made so far
\* v1, v2, dist: the arguments and the value of a call of distance on its own
VARIABLES documents, lexicon, index, td_matrix, pc, op, query, status, hits,
          listed, scores, results, nq, v1, v2, dist

vars == <<documents, lexicon, index, td_matrix, pc, op, query, status, hits,
          listed, scores, results, nq, v1, v2, dist>>

globals == <<documents, lexicon, index, td_matrix>>
lastCall == <<op, query, status, hits, listed, scores, results, nq>>
distVars == <<v1, v2, dist>>

NoCall ==
  /\ op = "none"
  /\ query = <<>>
  /\ status = "ok"
  /\ hits = {}
  /\ listed = <<>>
  /\ scores = <<>>
  /\ results = <<>>
  /\ nq = 0

Init ==
  /\ documents \in Collections
  /\ lexicon = <<>>
  /\ index = <<>>
  /\ td_matrix = <<>>
  /\ pc = "lexicon"
  /\ NoCall
  /\ v1 = <<>> /\ v2 = <<>> /\ dist = [kind |-> "none"]

BuildLexicon ==
  /\ pc = "lexicon"
  /\ lexicon' = build_lexicon(documents)
  /\ pc' = "index"
  /\ UNCHANGED <<documents, index, td_matrix, lastCall, distVars>>

BuildInvertedIndex ==
  /\ pc = "index"
  /\ index' = build_inverted_index(documents)
  /\ pc' = "matrix"
  /\ UNCHANGED <<documents, lexicon, td_matrix, lastCall, distVars>>

BuildTermdocMatrix ==
  /\ pc = "matrix"
  /\ td_matrix' = build_termdoc_matrix(documents)
  /\ pc' = "ready"
  /\ UNCHANGED <<documents, lexicon, index, lastCall, distVars>>

\* how many calls a run makes after the build
CallBudget(docs) == IF Len(docs) <= MaxSeqDocs THEN MaxQueries ELSE 1

\* get_postings(q, documents, index)
GetPostings(q) ==
  /\ pc = "ready"
  /\ nq < CallBudget(documents)
  /\ LET r == get_postings(q, documents, Given(index))
     IN /\ status' = r.status
        /\ hits' = r.hits
        /\ index' = r.index
  /\ op' = "get_postings"
  /\ query' = q
  /\ listed' = <<>>
  /\ scores' = <<>>
  /\ results' = <<>>
  /\ nq' = nq + 1
  /\ UNCHANGED <<documents, lexicon, td_matrix, pc, distVars>>

\* get_postings(q, documents): the index is built inside the call
GetPostingsNoIndex(q) ==
  /\ pc = "ready"
  /\ nq < CallBudget(documents)
  /\ LET r == get_postings(q, documents, NoIndex)
     IN /\ status' = r.status
        /\ hits' = r.hits
  /\ op' = "get_postings_noindex"
  /\ query' = q
  /\ listed' = <<>>
  /\ scores' = <<>>
  /\ results' = <<>>
  /\ nq' = nq + 1
  /\ UNCHANGED <<globals, pc, distVars>>

\* search(q, lexicon, index, td_matrix)
Search(q) ==
  /\ pc = "ready"
  /\ nq < CallBudget(documents)
  /\ LET vec == build_vector(q, lexicon)
         r == get_hits(q, documents, Given(index))
         ncols == IF td_matrix = <<>> THEN 0 ELSE VecLen(td_matrix[0])
         inRange == \A c \in r.hits : c \in 0..(ncols - 1)
         key == IF inRange THEN ScoresOf(vec, r.hits, td_matrix) ELSE <<>>
         finite == \A c \in r.hits : key[c].kind = "num"
     IN /\ index' = r.index
        /\ hits' = r.hits
        /\ IF r.status # "ok"
           THEN /\ status' = r.status
                /\ listed' = <<>> /\ scores' = <<>> /\ results' = <<>>
           ELSE IF ~inRange
           THEN /\ status' = "IndexError"
                /\ listed' = <<>> /\ scores' = <<>> /\ results' = <<>>
           ELSE /\ status' = "ok"
                /\ scores' = key
                /\ listed' \in ListingsOf(r.hits)
                \* a key that is nan compares false with everything: the order
                \* sorted leaves is not determined
                /\ IF finite
                   THEN results' = sorted_reverse(listed', key)
                   ELSE results' \in Orderings(r.hits)
  /\ op' = "search"
  /\ query' = q
  /\ nq' = nq + 1
  /\ UNCHANGED <<documents, lexicon, td_matrix, pc, distVars>>

Next ==
  \/ BuildLexicon
  \/ BuildInvertedIndex
  \/ BuildTermdocMatrix
  \/ \E q \in Queries : GetPostings(q)
  \/ \E q \in Queries : GetPostingsNoIndex(q)
  \/ \E q \in Queries : Search(q)

Spec == Init /\ [][Next]_vars

(* ---------------------- distance called on its own --------------------- *)
Vectors(n) == [0..(n - 1) -> VecVals]

InitDist ==
  /\ documents = <<>>
  /\ lexicon = <<>>
  /\ index = <<>>
  /\ td_matrix = <<>>
  /\ pc = "distance"
  /\ NoCall
  /\ \E n \in 0..MaxVecLen : v1 \in Vectors(n) /\ v2 \in Vectors(n)
  /\ dist = [kind |-> "none"]

Distance ==
  /\ pc = "distance"
  /\ dist' = distance(v1, v2)
  /\ pc' = "returned"
  /\ UNCHANGED <<globals, lastCall, v1, v2>>

NextDist == Distance

SpecDist == InitDist /\ [][NextDist]_vars

(* ------------------------------ properties ----------------------------- *)
Terms(lex) == {lex[k] : k \in 1..Len(lex)}

\* t is one of the whitespace-delimited tokens of the document at 0-based d
TokenOf(t, d) == InList(t, split(documents[d + 1]))

DocIds == 0..(Len(documents) - 1)

QueryParts == split(query)

\* 1-based place of x in a sequence without repeats
PlaceIn(seq, x) == CHOOSE i \in 1..Len(seq) : seq[i] = x

Searched == op = "search"

\* C1: the matrix has a 1 at (i, j) exactly when lexicon[i] is a token of
\* document j, and a 0 otherwise
C1_MatrixIffToken ==
  pc = "ready" =>
    \A i \in 0..(Len(lexicon) - 1) : \A j \in DocIds :
      td_matrix[i][j] = IF TokenOf(lexicon[i + 1], j) THEN 1 ELSE 0

\* C2: d is in index[t] exactly when t is a token of document d
C2_IndexIffToken ==
  pc \in {"matrix", "ready"} =>
    \A t \in Terms(lexicon) : \A d \in DocIds :
      d \in SeqToSet(index[t]) <=> TokenOf(t, d)

\* C3: every identifier search returns is a position of the collection whose
\* document contains every token of the query
C3_ResultsContainEveryToken ==
  Searched =>
    \A k \in 1..Len(results) :
      /\ results[k] \in DocIds
      /\ \A i \in 1..Len(QueryParts) : TokenOf(QueryParts[i], results[k])

C3_Witness ==
  /\ Searched
  /\ Len(results) >= 1
  /\ Len(documents) = 2
  /\ Len(QueryParts) = 2
  /\ QueryParts[1] # QueryParts[2]

NonIncreasing ==
  \A i, j \in 1..Len(results) :
    i < j => ~ScoreLess(scores[results[i]], scores[results[j]])

Tied(i, j) == ScoreEq(scores[results[i]], scores[results[j]])

\* C4 as stated: results are in non-increasing similarity, and two results of
\* equal similarity are in ascending order of identifier
C4_TiesAscending ==
  Searched /\ status = "ok" =>
    /\ \A c \in hits : scores[c].kind = "num"
    /\ NonIncreasing
    /\ \A i, j \in 1..Len(results) : i < j /\ Tied(i, j) => results[i] < results[j]

\* C4 amended: results are in non-increasing similarity, and two results of
\* equal similarity are in the order in which the candidate set was listed
C4_TiesInListedOrder ==
  Searched /\ status = "ok" =>
    /\ \A c \in hits : scores[c].kind = "num"
    /\ SeqToSet(results) = hits /\ Len(results) = Cardinality(hits)
    /\ NonIncreasing
    /\ \A i, j \in 1..Len(results) :
         i < j /\ Tied(i, j) => PlaceIn(listed, results[i]) < PlaceIn(listed, results[j])

C4_Witness ==
  /\ Searched
  /\ Len(results) = 2
  /\ ScoreLess(scores[results[2]], scores[results[1]])
  /\ results[2] < results[1]

IsOne(score) == score.kind = "num" /\ score.num > 0 /\ score.num * score.num = score.densq

C6_EmptyOrUnknownGivesEmpty ==
  Searched /\ (QueryParts = <<>> \/ \E i \in 1..Len(QueryParts) : ~InList(QueryParts[i], lexicon)) =>
    /\ status = "ok"
    /\ results = <<>>

C6_Witness ==
  /\ Searched
  /\ Len(QueryParts) = 2
  /\ InList(QueryParts[1], lexicon)
  /\ ~InList(QueryParts[2], lexicon)
  /\ results = <<>>

C6_WitnessEmpty ==
  /\ Searched
  /\ QueryParts = <<>>
  /\ Len(query) > 0
  /\ results = <<>>

ZeroArgument == IsZeroVec(v1) \/ IsZeroVec(v2)

\* C7 as stated: distance ends in a division-by-zero error when an argument is the
\* all-zero vector
C7_ZeroVectorRaises ==
  pc = "returned" /\ ZeroArgument => dist.kind = "ZeroDivisionError"

\* C7 amended: distance returns nan, raising nothing, when an argument is the
\* all-zero vector; it returns no other value for such an input
C7_ZeroVectorGivesNan ==
  pc = "returned" /\ ZeroArgument => dist.kind = "nan"

C7_Witness ==
  /\ pc = "returned"
  /\ VecLen(v1) = 2
  /\ IsZeroVec(v1)
  /\ ~IsZeroVec(v2)

\* every token of every document
AllTokens == UNION {SeqToSet(split(documents[p])) : p \in 1..Len(documents)}

\* C8: the lexicon is strictly ascending and holds exactly the tokens of the
\* documents, compared case-sensitively
C8_LexiconSortedExact ==
  pc # "lexicon" /\ pc # "distance" /\ pc # "returned" =>
    /\ \A k \in 1..(Len(lexicon) - 1) : StrLess(lexicon[k], lexicon[k + 1])
    /\ Terms(lexicon) = AllTokens

C8_Witness ==
  /\ pc = "index"
  /\ Len(documents) = 2
  /\ split(documents[1]) = <<>>
  /\ Len(split(documents[2])) = 2
  /\ lexicon = << <<66>>, <<98>> >>

C8_WitnessEmpty ==
  /\ pc = "index"
  /\ documents = <<>>
  /\ lexicon = <<>>

\* C9: answering a query leaves the index as it was: the same keys, the same
\* postings for each key
C9_IndexReadOnly == [][pc = "ready" => index' = index]_vars

\* C10: search never evaluates distance on an all-zero vector: with a candidate
\* at all, the query vector has a 1 and so has every candidate's column
C10_NoZeroVector ==
  Searched /\ hits # {} =>
    /\ status = "ok"
    /\ ~IsZeroVec(build_vector(query, lexicon))
    /\ \A c \in hits :
         /\ c \in DocIds
         /\ ~IsZeroVec(Column(td_matrix, c))
         /\ scores[c].kind = "num"

C10_Witness ==
  /\ Searched
  /\ hits # {}
  /\ Len(documents) = 2
  /\ documents[1] = documents[2]

C10_WitnessEmptyDoc ==
  /\ Searched
  /\ hits # {}
  /\ \E p \in 1..Len(documents) : split(documents[p]) = <<>>
====
